---- MODULE Spec2Model ----
(***************************************************************************)
(* A model of parts of ya-webadb:                                          *)
(*   - Consumable, tryConsume and the producers' write()/enqueue()         *)
(*     (libraries/stream-extra/src/consumable.ts),                         *)
(*   - AdbSubprocessShellProtocol, the shell-v2 session, and its packet    *)
(*     codec (unnamed/part_000, libraries/struct/src/number.ts),           *)
(*   - AdbScrcpyClient.start and #parseDeviceMessages (unnamed/part_003).  *)
(* Each part has its own specification; the variables of the other parts   *)
(* keep their initial values under it.                                     *)
(***************************************************************************)
EXTENDS Integers, Sequences, FiniteSets, TLC

VARIABLES
    \* ---- Consumable ----
    resolver,       \* Consumable.#resolver: the PromiseResolver behind `consumed`
    calls,          \* the consume()/error(e) calls made so far, in order
    \* ---- tryConsume and the producers of a Consumable ----
    callback,       \* what the callback passed to tryConsume did
    tryReturn,      \* what tryConsume gave its caller
    producer,       \* the producer's write()/enqueue() call: "idle" |
                    \* "writing" | "awaiting" | "settled"
    producerOp,     \* "none" | "write" | "enqueue"
    handOff,        \* writer.write() or controller.enqueue(): "none" |
                    \* "pending" | "ok" | the error it failed with
    producerResult, \* the promise write()/enqueue() returned
    \* ---- shell-v2 session ----
    session,        \* "unconstructed" | "running" | "threw"
    signal,         \* the AbortSignal argument: "none" | "idle" | "aborted"
    listener,       \* the abort listener of line 101 is registered
    writer,         \* #writer was acquired (line 148)
    socketClosed,   \* socket.close() was called
    pump,           \* the read pump: "unstarted" | "reading" | "pushing" |
                    \* "fulfilled" | "rejected"
    pending,        \* the enqueue the pump is awaiting, or NoPush
    inbound,        \* the packets the pump has dispatched, in wire order
    stdout,         \* #stdout and its controller
    stderr,         \* #stderr and its controller
    exit,           \* #exit, a PromiseResolver
    \* ---- AdbScrcpyClient.start ----
    pc,             \* where start() is: "establish" | "fallback" | "spawn" |
                    \* "race" | "awaitPipe" | "catch" | "finally" | "done"
    tunnelForward,  \* options.value.tunnelForward
    attempts,       \* the establishment attempts made: [mode, outcome]
    connection,     \* the local `connection`: 0 for undefined, else the
                    \* number of the attempt that created it
    disposals,      \* the connections dispose() was called on, in order
    process,        \* the local `process`: "undefined" | "running" | "exited"
    kills,          \* how many times process.kill() was called
    written,        \* how many lines the process wrote to its stdout
    stdoutBuf,      \* the lines of `stdout` nobody read yet
    output,         \* the local `output` array
    pipe,           \* the capture pipe: "none" | "running" | "finished" |
                    \* "failed" | "aborted"
    pipeError,      \* the error a failed pipe rejected with
    streams,        \* connection.getStreams(): "none" | "pending" |
                    \* "resolved" | "rejected"
    race,           \* Promise.race: "pending" | "exited" | "streams" | "failed"
    raceError,      \* the error getStreams() lost the race with
    thrown,         \* the error start() is propagating, or NoError
    result,         \* the promise start() returned
    \* ---- the client start() returned ----
    clientOut,      \* the lines read from the client's stdout, in order
    \* ---- AdbScrcpyClient.#parseDeviceMessages ----
    reader,         \* where the loop is: "readType" | "parsing" | "done"
    parsed,         \* the type tags parseDeviceMessage was called with
    finalized,      \* the arguments of the endDeviceMessageStream calls
                    \* (NoError for a call without argument)
    cancelled,      \* the arguments of the buffered.cancel calls
    cause,          \* what ended the loop: where it was and the error
    \* ---- AdbShellProtocolPacket on the wire ----
    packet,         \* the packet that was serialized
    wire,           \* its bytes the source has not delivered yet
    chunks,         \* the sizes of the chunks the source delivered
    buffered,       \* the bytes delivered and not yet consumed
    field,          \* the field the decoder is at: "id" | "length" |
                    \* "data" | "done"
    decoded,        \* the fields decoded so far
    \* ---- the numeric fields of struct/src/number.ts ----
    number,         \* one decode by a numeric field: the field chosen, the field
                    \* used, the reader's bytes, the request and the value
    \* ---- the stdin of a shell-v2 session ----
    stdin,          \* the session's #stdin: the chunks written to it, the packets
                    \* passed to the socket writer, and how far each got
    \* ---- the video stream of an AdbScrcpyClient ----
    video,          \* the client's video stream: the negotiated codec, the screen
                    \* size, and what the inspector ran for each packet
    \* ---- the spawn of the agent process ----
    spawn,          \* the call of adb.subprocess.spawn: the path, the options and
                    \* the arguments passed
    \* ---- the queuing strategy of a Consumable stream ----
    strategy,       \* a Consumable stream and its queuing strategy: the one given,
                    \* the one passed on, and the sizes of the queued chunks
    \* ---- the scroll controller ----
    scroll          \* a ScrollController: its accumulators, the last call's input
                    \* and result, and the number of messages it returned

consumableVars == <<resolver, calls>>
shellVars == <<session, signal, listener, writer, socketClosed, pump, pending,
               inbound, stdout, stderr, exit>>
startVars == <<pc, tunnelForward, attempts, connection, disposals, process,
               kills, written, stdoutBuf, output, pipe, pipeError, streams,
               race, raceError, thrown, result>>
clientVars == <<clientOut>>
envelopeVars == <<callback, tryReturn, producer, producerOp, handOff,
                  producerResult>>
controlVars == <<reader, parsed, finalized, cancelled, cause>>
codecVars == <<packet, wire, chunks, buffered, field, decoded>>
numberVars == <<number>>
stdinVars == <<stdin>>
videoVars == <<video>>
spawnVars == <<spawn>>
strategyVars == <<strategy>>
scrollVars == <<scroll>>
vars == <<consumableVars, shellVars, startVars, clientVars, envelopeVars,
          controlVars, codecVars,
          numberVars,
          stdinVars,
          videoVars,
          spawnVars,
          strategyVars,
          scrollVars>>

\* What the actions of one part leave alone: the variables of the others
exceptConsumable == <<shellVars, startVars, clientVars, envelopeVars, controlVars,
    codecVars,
    numberVars,
    stdinVars,
    videoVars,
    spawnVars,
    strategyVars,
    scrollVars>>
exceptShell == <<consumableVars, startVars, clientVars, envelopeVars, controlVars,
    codecVars,
    numberVars,
    stdinVars,
    videoVars,
    spawnVars,
    strategyVars,
    scrollVars>>
exceptStart == <<consumableVars, shellVars, clientVars, envelopeVars, controlVars,
    codecVars,
    numberVars,
    stdinVars,
    videoVars,
    spawnVars,
    strategyVars,
    scrollVars>>
exceptClient == <<consumableVars, shellVars, envelopeVars, controlVars,
    codecVars,
    numberVars,
    stdinVars,
    videoVars,
    spawnVars,
    strategyVars,
    scrollVars>>
exceptEnvelope == <<shellVars, startVars, clientVars, controlVars,
    codecVars,
    numberVars,
    stdinVars,
    videoVars,
    spawnVars,
    strategyVars,
    scrollVars>>
exceptControl == <<consumableVars, shellVars, startVars, clientVars, envelopeVars,
    codecVars,
    numberVars,
    stdinVars,
    videoVars,
    spawnVars,
    strategyVars,
    scrollVars>>
exceptCodec == <<consumableVars, shellVars, startVars, clientVars, envelopeVars,
    controlVars,
    numberVars,
    stdinVars,
    videoVars,
    spawnVars,
    strategyVars,
    scrollVars>>
exceptNumber == <<consumableVars,
    shellVars,
    startVars,
    clientVars,
    envelopeVars,
    controlVars,
    codecVars,
    stdinVars,
    videoVars,
    spawnVars,
    strategyVars,
    scrollVars>>
exceptStdin == <<consumableVars,
    shellVars,
    startVars,
    clientVars,
    envelopeVars,
    controlVars,
    codecVars,
    numberVars,
    videoVars,
    spawnVars,
    strategyVars,
    scrollVars>>
exceptVideo == <<consumableVars,
    shellVars,
    startVars,
    clientVars,
    envelopeVars,
    controlVars,
    codecVars,
    numberVars,
    stdinVars,
    spawnVars,
    strategyVars,
    scrollVars>>
exceptSpawn == <<consumableVars,
    shellVars,
    startVars,
    clientVars,
    envelopeVars,
    controlVars,
    codecVars,
    numberVars,
    stdinVars,
    videoVars,
    strategyVars,
    scrollVars>>
exceptStrategy == <<consumableVars,
    shellVars,
    startVars,
    clientVars,
    envelopeVars,
    controlVars,
    codecVars,
    numberVars,
    stdinVars,
    videoVars,
    spawnVars,
    scrollVars>>
exceptScroll == <<consumableVars,
    shellVars,
    startVars,
    clientVars,
    envelopeVars,
    controlVars,
    codecVars,
    numberVars,
    stdinVars,
    videoVars,
    spawnVars,
    strategyVars>>

----------------------------------------------------------------------------
\* Bounds of the model
MaxCalls == 4       \* consume()/error() calls on one Consumable
MaxPackets == 3     \* inbound packets of one shell-v2 session
MaxLines == 2       \* lines the agent process writes to its stdout
MaxMessages == 3    \* device messages read from one control channel
MaxPayload == 2     \* bytes of payload of the packet that is serialized
MaxChunks == 2      \* chunks written to the stdin of one session
MaxVideoPackets == 3 \* packets passing the video inspector
MaxOptions == 2     \* elements of options.serialize()
MaxQueued == 2      \* chunks queued in one Consumable stream
MaxScrolls == 3     \* calls of serializeScrollMessage on one controller

\* The values the model draws from
Errors == {"e1", "e2"}
NoError == "none"
\* JavaScript's undefined where a number is expected: the value of a
\* resolve() without argument, and data[0] of an empty array
Undefined == -1

----------------------------------------------------------------------------
\* PromiseResolver (@yume-chan/async): the first resolve()/reject() settles
\* it, any later one is a no-op.
NewResolver == [state |-> "pending", value |-> Undefined, reason |-> NoError]

Resolved(v) == [state |-> "resolved", value |-> v, reason |-> NoError]
Rejected(e) == [state |-> "rejected", value |-> Undefined, reason |-> e]

Resolve(r, v) == IF r.state = "pending" THEN Resolved(v) ELSE r

Reject(r, e) == IF r.state = "pending" THEN Rejected(e) ELSE r

----------------------------------------------------------------------------
\* Consumable

ConsumableInit ==
    /\ resolver = NewResolver
    /\ calls = <<>>

\* A consume() that overwrites the outcome instead of asking the resolver.
consumeOverwriting ==
    /\ Len(calls) < MaxCalls
    /\ resolver' = Resolved(Undefined)
    /\ calls' = Append(calls, [op |-> "consume", e |-> NoError])

\* consume() { this.#resolver.resolve(); }
consume ==
    /\ Len(calls) < MaxCalls
    /\ resolver' = Resolve(resolver, Undefined)
    /\ calls' = Append(calls, [op |-> "consume", e |-> NoError])

\* error(error) { this.#resolver.reject(error); }
error(e) ==
    /\ Len(calls) < MaxCalls
    /\ resolver' = Reject(resolver, e)
    /\ calls' = Append(calls, [op |-> "error", e |-> e])

ConsumableNext ==
    \/ consume /\ UNCHANGED exceptConsumable
    \/ \E e \in Errors : error(e) /\ UNCHANGED exceptConsumable

----------------------------------------------------------------------------
\* tryConsume, Consumable.WritableStream.write and
\* ConsumableReadableStream.enqueue

\* What a callback returns
Values == {0, 1}

\* What the callback passed to tryConsume can do: return a value that is no
\* promise, throw, or return a promise
CallbackOutcomes ==
    [kind : {"value"}, value : Values, reason : {NoError}]
        \cup [kind : {"throw"}, value : {Undefined}, reason : Errors]
        \cup [kind : {"promise"}, value : {Undefined}, reason : {NoError}]

NoCallback ==
    [kind |-> "none", settled |-> NewResolver, atCall |-> "none",
     atSettle |-> "none"]

NoReturn == [kind |-> "none", settled |-> NewResolver]

EnvelopeInit ==
    /\ callback = NoCallback
    /\ tryReturn = NoReturn
    /\ producer = "idle"
    /\ producerOp = "none"
    /\ handOff = "none"
    /\ producerResult = NewResolver

\* The consumer holds the Consumable: writer.write(consumable) was called,
\* or controller.enqueue(output) returned.
Delivered ==
    \/ producerOp = "write"
    \/ producerOp = "enqueue" /\ handOff = "ok"

\* What the callback's outcome is once it is known
Outcome(o) ==
    CASE o.kind = "value" -> Resolved(o.value)
      [] o.kind = "throw" -> Rejected(o.reason)
      [] OTHER -> NewResolver

\* A tryConsume that settles the Consumable whatever the callback returns.
tryConsumeEager(o) ==
    /\ Delivered
    /\ callback.kind = "none"
    /\ callback' = [kind |-> o.kind, settled |-> Outcome(o),
                    atCall |-> resolver.state,
                    atSettle |-> IF o.kind = "promise" THEN "none"
                                 ELSE resolver.state]
    /\ resolver' = IF o.kind = "throw" THEN Reject(resolver, o.reason)
                   ELSE Resolve(resolver, Undefined)
    /\ tryReturn' = [kind |-> o.kind, settled |-> Outcome(o)]
    /\ UNCHANGED <<calls, producer, producerOp, handOff, producerResult>>

\* tryConsume(callback), lines 61-83, up to its return or throw: a value
\* that is no promise resolves the resolver (line 77), a throw rejects it
\* and is rethrown (lines 80-81), a promise is returned with handlers
\* attached (lines 65-75).
tryConsume(o) ==
    /\ Delivered
    /\ callback.kind = "none"
    /\ callback' = [kind |-> o.kind, settled |-> Outcome(o),
                    atCall |-> resolver.state,
                    atSettle |-> IF o.kind = "promise" THEN "none"
                                 ELSE resolver.state]
    /\ resolver' = CASE o.kind = "value" -> Resolve(resolver, Undefined)
                     [] o.kind = "throw" -> Reject(resolver, o.reason)
                     [] OTHER -> resolver
    /\ tryReturn' = [kind |-> o.kind, settled |-> Outcome(o)]
    /\ UNCHANGED <<calls, producer, producerOp, handOff, producerResult>>

\* The callback's promise fulfils with v: lines 66-69 resolve the resolver
\* and the returned promise fulfils with v.
CallbackFulfils(v) ==
    /\ callback.kind = "promise"
    /\ callback.settled.state = "pending"
    /\ callback' = [callback EXCEPT !.settled = Resolved(v),
                                    !.atSettle = resolver.state]
    /\ resolver' = Resolve(resolver, Undefined)
    /\ tryReturn' = [tryReturn EXCEPT !.settled = Resolved(v)]
    /\ UNCHANGED <<calls, producer, producerOp, handOff, producerResult>>

\* A rejection handler that passes the error on without telling the
\* resolver.
CallbackRejectsUnreported(e) ==
    /\ callback.kind = "promise"
    /\ callback.settled.state = "pending"
    /\ callback' = [callback EXCEPT !.settled = Rejected(e),
                                    !.atSettle = resolver.state]
    /\ tryReturn' = [tryReturn EXCEPT !.settled = Rejected(e)]
    /\ UNCHANGED <<resolver, calls, producer, producerOp, handOff, producerResult>>

\* The callback's promise rejects with e: lines 70-73 reject the resolver
\* and rethrow, so the returned promise rejects with e.
CallbackRejects(e) ==
    /\ callback.kind = "promise"
    /\ callback.settled.state = "pending"
    /\ callback' = [callback EXCEPT !.settled = Rejected(e),
                                    !.atSettle = resolver.state]
    /\ resolver' = Reject(resolver, e)
    /\ tryReturn' = [tryReturn EXCEPT !.settled = Rejected(e)]
    /\ UNCHANGED <<calls, producer, producerOp, handOff, producerResult>>

\* Consumable.WritableStream.write(writer, value), lines 102-109, up to its
\* first await: the Consumable is created and writer.write(consumable) is
\* called.
ProducerWrite ==
    /\ producer = "idle"
    /\ producer' = "writing"
    /\ producerOp' = "write"
    /\ handOff' = "pending"
    /\ UNCHANGED <<resolver, calls, callback, tryReturn, producerResult>>

\* writer.write(consumable) fulfils; write() goes on to await
\* consumable.consumed (line 108).
WriterWriteFulfils ==
    /\ producer = "writing"
    /\ handOff' = "ok"
    /\ producer' = "awaiting"
    /\ UNCHANGED <<resolver, calls, callback, tryReturn, producerOp, producerResult>>

\* writer.write(consumable) rejects with e, and so does write() (line 107).
WriterWriteRejects(e) ==
    /\ producer = "writing"
    /\ handOff' = e
    /\ producerResult' = Rejected(e)
    /\ producer' = "settled"
    /\ UNCHANGED <<resolver, calls, callback, tryReturn, producerOp>>

\* ConsumableReadableStream.enqueue(controller, chunk), lines 170-177, up
\* to its await: controller.enqueue(output) returns or throws.
ProducerEnqueue(outcome) ==
    /\ producer = "idle"
    /\ producerOp' = "enqueue"
    /\ handOff' = outcome
    /\ IF outcome = "ok"
       THEN producer' = "awaiting" /\ UNCHANGED producerResult
       ELSE producer' = "settled" /\ producerResult' = Rejected(outcome)
    /\ UNCHANGED <<resolver, calls, callback, tryReturn>>

\* A producer that does not await consumable.consumed.
ConsumedAwaitedNot ==
    /\ producer = "awaiting"
    /\ producerResult' = Resolved(Undefined)
    /\ producer' = "settled"
    /\ UNCHANGED <<resolver, calls, callback, tryReturn, producerOp, handOff>>

\* await consumable.consumed (lines 108 and 176) returns or throws once the
\* resolver is settled, and the producer's call settles the same way.
ConsumedAwaited ==
    /\ producer = "awaiting"
    /\ resolver.state # "pending"
    /\ producerResult' = IF resolver.state = "resolved" THEN Resolved(Undefined)
                         ELSE Rejected(resolver.reason)
    /\ producer' = "settled"
    /\ UNCHANGED <<resolver, calls, callback, tryReturn, producerOp, handOff>>

EnvelopeNext ==
    \/ Delivered /\ consume /\ UNCHANGED exceptConsumable
    \/ \E e \in Errors : Delivered /\ error(e) /\ UNCHANGED exceptConsumable
    \/ \E o \in CallbackOutcomes : tryConsume(o) /\ UNCHANGED exceptEnvelope
    \/ \E v \in Values : CallbackFulfils(v) /\ UNCHANGED exceptEnvelope
    \/ \E e \in Errors : CallbackRejects(e) /\ UNCHANGED exceptEnvelope
    \/ ProducerWrite /\ UNCHANGED exceptEnvelope
    \/ WriterWriteFulfils /\ UNCHANGED exceptEnvelope
    \/ \E e \in Errors : WriterWriteRejects(e) /\ UNCHANGED exceptEnvelope
    \/ \E o \in {"ok"} \cup Errors : ProducerEnqueue(o) /\ UNCHANGED exceptEnvelope
    \/ ConsumedAwaited /\ UNCHANGED exceptEnvelope

----------------------------------------------------------------------------
\* The shell-v2 session, AdbSubprocessShellProtocol

\* AdbShellProtocolId
Stdin == 0
Stdout == 1
Stderr == 2
Exit == 3
CloseStdin == 4
WindowSizeChange == 5
\* a tag outside AdbShellProtocolId (the id field is a u8)
UnknownId == 6

Ids == {Stdin, Stdout, Stderr, Exit, CloseStdin, WindowSizeChange, UnknownId}

\* The payloads the device sends: data of stdout and stderr, the status of
\* an exit packet (empty, one byte, or four bytes), one byte for the others.
DataPayloads == {<<0>>, <<1>>}
ExitPayloads == {<<>>, <<1>>, <<1, 0, 0, 0>>, <<0, 1, 0, 0>>}
PayloadsOf(id) ==
    IF id = Exit THEN ExitPayloads
    ELSE IF id \in {Stdout, Stderr} THEN DataPayloads
    ELSE {<<1>>}

\* AdbShellProtocolPacket values: { id: u8, data: buffer(u32) }
Packets == UNION {{[id |-> i, data |-> d] : d \in PayloadsOf(i)} : i \in Ids}

EndedError == "Socket ended without exit message"

\* chunk.data[0]: the first byte of a payload, undefined when it is empty
First(data) == IF Len(data) > 0 THEN data[1] ELSE Undefined

\* The default highWaterMark of a ReadableStream
HighWaterMark == 1

NoPush == [chan |-> "none", data |-> <<>>]

\* A PushReadableStream and its controller.  `enqueued` and `taken` record
\* the chunks enqueue() was called with and the chunks the consumer read.
NewStream ==
    [state |-> "readable", queue |-> <<>>, error |-> NoError,
     enqueued |-> <<>>, taken |-> <<>>]

\* desiredSize > 0: enqueue() puts the chunk in the queue without waiting
HasRoom(s) == Len(s.queue) < HighWaterMark

\* controller.enqueue(chunk) of the underlying ReadableStream
ControllerEnqueue(s, data) == [s EXCEPT !.queue = Append(@, data)]

\* PushReadableStreamController.enqueue(chunk), up to its first await: the
\* chunk is queued when there is room, and waits for a pull otherwise.
Enqueue(s, data) ==
    IF HasRoom(s)
    THEN [ControllerEnqueue(s, data) EXCEPT !.enqueued = Append(@, data)]
    ELSE [s EXCEPT !.enqueued = Append(@, data)]

\* controller.close(): queued chunks can still be read
Close(s) == [s EXCEPT !.state = "closed"]

\* controller.error(e): the queue is dropped
Error(s, e) == [s EXCEPT !.state = "errored", !.queue = <<>>, !.error = e]

ShellInit ==
    /\ session = "unconstructed"
    /\ signal \in {"none", "idle", "aborted"}
    /\ listener = FALSE
    /\ writer = FALSE
    /\ socketClosed = FALSE
    /\ pump = "unstarted"
    /\ pending = NoPush
    /\ inbound = <<>>
    /\ stdout = NewStream
    /\ stderr = NewStream
    /\ exit = NewResolver

\* A constructor that looks at the signal only after everything is set up.
ConstructChecksLate ==
    /\ session = "unconstructed"
    /\ session' = IF signal = "aborted" THEN "threw" ELSE "running"
    /\ listener' = (signal # "none")
    /\ pump' = "reading"
    /\ writer' = TRUE
    /\ UNCHANGED <<signal, socketClosed, pending, inbound, stdout, stderr, exit>>

\* constructor(socket, signal), lines 97-160
Construct ==
    /\ session = "unconstructed"
    /\ IF signal = "aborted"
       THEN /\ session' = "threw"
            /\ UNCHANGED <<listener, writer, pump>>
       ELSE /\ session' = "running"
            /\ listener' = (signal = "idle")
            /\ pump' = "reading"
            /\ writer' = TRUE
    /\ UNCHANGED <<signal, socketClosed, pending, inbound, stdout, stderr, exit>>

\* kill() { return this.#socket.close(); }
kill ==
    /\ session = "running"
    /\ socketClosed' = TRUE
    /\ UNCHANGED <<session, signal, listener, writer, pump, pending, inbound,
                   stdout, stderr, exit>>

\* An abort signal nobody listens to.
AbortUnheard ==
    /\ signal = "idle"
    /\ signal' = "aborted"
    /\ UNCHANGED <<session, listener, writer, socketClosed, pump, pending,
                   inbound, stdout, stderr, exit>>

\* The abort signal fires; the listener of line 101 calls kill().
Abort ==
    /\ signal = "idle"
    /\ signal' = "aborted"
    /\ socketClosed' = (socketClosed \/ listener)
    /\ UNCHANGED <<session, listener, writer, pump, pending, inbound,
                   stdout, stderr, exit>>

\* The switch of write(): the case a packet id selects.
RouteCrossed(id) ==
    CASE id = Exit -> "exit"
      [] id = Stdout -> "stderr"
      [] id = Stderr -> "stdout"
      [] OTHER -> "none"

Route(id) ==
    CASE id = Exit -> "exit"
      [] id = Stdout -> "stdout"
      [] id = Stderr -> "stderr"
      [] OTHER -> "none"

\* The value an exit packet resolves #exit with: chunk.data[0]
ExitStatusLast(chunk) ==
    IF Len(chunk.data) > 0 THEN chunk.data[Len(chunk.data)] ELSE Undefined

ExitStatus(chunk) == First(chunk.data)

\* The state of the pump after write() called enqueue() on stream s: the
\* call is awaited.
AfterEnqueueNotAwaited(s) == "reading"

AfterEnqueue(s) == IF HasRoom(s) THEN "reading" ELSE "pushing"
PendingAfter(s, chan, data) ==
    IF HasRoom(s) THEN NoPush ELSE [chan |-> chan, data |-> data]

\* A write() whose switch has a default case that throws.
writeThrowsOnDefault(chunk) ==
    /\ pump = "reading"
    /\ Len(inbound) < MaxPackets
    /\ inbound' = Append(inbound, chunk)
    /\ CASE Route(chunk.id) = "exit" ->
              /\ exit' = Resolve(exit, ExitStatus(chunk))
              /\ UNCHANGED <<stdout, stderr, pump, pending>>
         [] Route(chunk.id) = "stdout" ->
              /\ stdout' = Enqueue(stdout, chunk.data)
              /\ pump' = AfterEnqueue(stdout)
              /\ pending' = PendingAfter(stdout, "stdout", chunk.data)
              /\ UNCHANGED <<stderr, exit>>
         [] Route(chunk.id) = "stderr" ->
              /\ stderr' = Enqueue(stderr, chunk.data)
              /\ pump' = AfterEnqueue(stderr)
              /\ pending' = PendingAfter(stderr, "stderr", chunk.data)
              /\ UNCHANGED <<stdout, exit>>
         [] OTHER ->
              /\ pump' = "rejected"
              /\ UNCHANGED <<stdout, stderr, exit, pending>>
    /\ UNCHANGED <<session, signal, listener, writer, socketClosed>>

\* The sink's write(chunk), lines 116-128, for the next decoded packet.
write(chunk) ==
    /\ pump = "reading"
    /\ Len(inbound) < MaxPackets
    /\ inbound' = Append(inbound, chunk)
    /\ CASE Route(chunk.id) = "exit" ->
              /\ exit' = Resolve(exit, ExitStatus(chunk))
              /\ UNCHANGED <<stdout, stderr, pump, pending>>
         [] Route(chunk.id) = "stdout" ->
              /\ stdout' = Enqueue(stdout, chunk.data)
              /\ pump' = AfterEnqueue(stdout)
              /\ pending' = PendingAfter(stdout, "stdout", chunk.data)
              /\ UNCHANGED <<stderr, exit>>
         [] Route(chunk.id) = "stderr" ->
              /\ stderr' = Enqueue(stderr, chunk.data)
              /\ pump' = AfterEnqueue(stderr)
              /\ pending' = PendingAfter(stderr, "stderr", chunk.data)
              /\ UNCHANGED <<stdout, exit>>
         [] OTHER ->
              UNCHANGED <<stdout, stderr, exit, pump, pending>>
    /\ UNCHANGED <<session, signal, listener, writer, socketClosed>>

\* The awaited enqueue() resumes after a pull and queues its chunk; write()
\* returns and the pump reads on.
EnqueueResumed ==
    /\ pump = "pushing"
    /\ \/ /\ pending.chan = "stdout"
          /\ HasRoom(stdout)
          /\ stdout' = ControllerEnqueue(stdout, pending.data)
          /\ UNCHANGED stderr
       \/ /\ pending.chan = "stderr"
          /\ HasRoom(stderr)
          /\ stderr' = ControllerEnqueue(stderr, pending.data)
          /\ UNCHANGED stdout
    /\ pump' = "reading"
    /\ pending' = NoPush
    /\ UNCHANGED <<session, signal, listener, writer, socketClosed, inbound, exit>>

\* The consumer of a stream reads its next chunk.
Take(s) == [s EXCEPT !.queue = Tail(@), !.taken = Append(@, Head(s.queue))]

ReadStdout ==
    /\ stdout.queue # <<>>
    /\ stdout' = Take(stdout)
    /\ UNCHANGED <<session, signal, listener, writer, socketClosed, pump,
                   pending, inbound, stderr, exit>>

ReadStderr ==
    /\ stderr.queue # <<>>
    /\ stderr' = Take(stderr)
    /\ UNCHANGED <<session, signal, listener, writer, socketClosed, pump,
                   pending, inbound, stdout, exit>>

\* A fulfilment handler that forgets the second stream.
PipeFulfilledStdoutOnly ==
    /\ pump = "reading"
    /\ stdout' = Close(stdout)
    /\ exit' = Reject(exit, EndedError)
    /\ pump' = "fulfilled"
    /\ UNCHANGED <<session, signal, listener, writer, socketClosed, pending,
                   inbound, stderr>>

\* The pipe ended: the inbound stream is done and every write() returned.
\* Lines 132-139.
PipeFulfilled ==
    /\ pump = "reading"
    /\ stdout' = Close(stdout)
    /\ stderr' = Close(stderr)
    /\ exit' = Reject(exit, EndedError)
    /\ pump' = "fulfilled"
    /\ UNCHANGED <<session, signal, listener, writer, socketClosed, pending, inbound>>

\* A rejection handler that reports the end-of-socket error to #exit.
PipeRejectedAsEnded(e) ==
    /\ pump = "reading"
    /\ stdout' = Error(stdout, e)
    /\ stderr' = Error(stderr, e)
    /\ exit' = Reject(exit, EndedError)
    /\ pump' = "rejected"
    /\ UNCHANGED <<session, signal, listener, writer, socketClosed, pending, inbound>>

\* The pipe failed with e (a read error of the socket or a decode error of
\* StructDeserializeStream).  Lines 140-146.
PipeRejected(e) ==
    /\ pump = "reading"
    /\ stdout' = Error(stdout, e)
    /\ stderr' = Error(stderr, e)
    /\ exit' = Reject(exit, e)
    /\ pump' = "rejected"
    /\ UNCHANGED <<session, signal, listener, writer, socketClosed, pending, inbound>>

ShellNext ==
    \/ Construct /\ UNCHANGED exceptShell
    \/ kill /\ UNCHANGED exceptShell
    \/ Abort /\ UNCHANGED exceptShell
    \/ \E chunk \in Packets : write(chunk) /\ UNCHANGED exceptShell
    \/ EnqueueResumed /\ UNCHANGED exceptShell
    \/ ReadStdout /\ UNCHANGED exceptShell
    \/ ReadStderr /\ UNCHANGED exceptShell
    \/ PipeFulfilled /\ UNCHANGED exceptShell
    \/ \E e \in Errors : PipeRejected(e) /\ UNCHANGED exceptShell

----------------------------------------------------------------------------
\* AdbScrcpyClient.start(adb, path, options)

ReverseNotSupported == "AdbReverseNotSupportedError"
ExitedError == "AdbScrcpyExitedError"

\* What connection.initialize() can do
InitializeOutcomes == {"ok", ReverseNotSupported} \cup Errors

\* options.createConnection(adb): the kind of connection the options select
Mode(forward) == IF forward THEN "forward" ELSE "reverse"

StartInit ==
    /\ pc = "establish"
    /\ tunnelForward \in BOOLEAN
    /\ attempts = <<>>
    /\ connection = 0
    /\ disposals = <<>>
    /\ process = "undefined"
    /\ kills = 0
    /\ written = 0
    /\ stdoutBuf = <<>>
    /\ output = <<>>
    /\ pipe = "none"
    /\ pipeError = NoError
    /\ streams = "none"
    /\ race = "pending"
    /\ raceError = NoError
    /\ thrown = NoError
    /\ result = NewResolver
    /\ clientOut = <<>>

\* Where start() goes after the first initialize() failed with error e,
\* lines 134-144: only AdbReverseNotSupportedError leads to the fallback.
AfterFirstFailureAlwaysRetry(e) == "fallback"

AfterFirstFailure(e) == IF e = ReverseNotSupported THEN "fallback" ELSE "catch"

\* Where start() goes after the fallback initialize() failed: the error
\* leaves the inner catch block.
AfterFallbackFailureRetry(e) == IF e = ReverseNotSupported THEN "fallback" ELSE "catch"

AfterFallbackFailure(e) == "catch"

\* Lines 131-144, the first attempt: createConnection, await initialize()
\* and, when it throws, the catch block up to its await.
Establish(outcome) ==
    /\ pc = "establish"
    /\ attempts' = Append(attempts, [mode |-> Mode(tunnelForward), outcome |-> outcome])
    /\ IF outcome = "ok"
       THEN /\ connection' = Len(attempts')
            /\ pc' = "spawn"
            /\ UNCHANGED <<tunnelForward, thrown>>
       ELSE IF AfterFirstFailure(outcome) = "fallback"
       THEN /\ tunnelForward' = TRUE
            /\ connection' = Len(attempts')
            /\ pc' = "fallback"
            /\ UNCHANGED thrown
       ELSE /\ connection' = 0
            /\ thrown' = outcome
            /\ pc' = "catch"
            /\ UNCHANGED tunnelForward
    /\ UNCHANGED <<disposals, process, kills, written, stdoutBuf, output, pipe,
                   pipeError, streams, race, raceError, result>>

\* Lines 138-139, the fallback attempt: createConnection, await initialize()
Fallback(outcome) ==
    /\ pc = "fallback"
    /\ attempts' = Append(attempts, [mode |-> Mode(tunnelForward), outcome |-> outcome])
    /\ connection' = Len(attempts')
    /\ IF outcome = "ok"
       THEN pc' = "spawn" /\ UNCHANGED thrown
       ELSE IF AfterFallbackFailure(outcome) = "fallback"
       THEN pc' = "fallback" /\ UNCHANGED thrown
       ELSE pc' = "catch" /\ thrown' = outcome
    /\ UNCHANGED <<tunnelForward, disposals, process, kills, written, stdoutBuf,
                   output, pipe, pipeError, streams, race, raceError, result>>

\* Lines 146-195 up to the await of the race: the process is spawned, the
\* capture pipe is started and getStreams() is called.
SpawnOk ==
    /\ pc = "spawn"
    /\ process' = "running"
    /\ pipe' = "running"
    /\ streams' = "pending"
    /\ pc' = "race"
    /\ UNCHANGED <<tunnelForward, attempts, connection, disposals, kills, written,
                   stdoutBuf, output, pipeError, race, raceError, thrown, result>>

\* adb.subprocess.spawn() rejects with e
SpawnFails(e) ==
    /\ pc = "spawn"
    /\ thrown' = e
    /\ pc' = "catch"
    /\ UNCHANGED <<tunnelForward, attempts, connection, disposals, process, kills,
                   written, stdoutBuf, output, pipe, pipeError, streams, race,
                   raceError, result>>

\* The agent process writes its next line; lines are numbered in order.
ProcessWrites ==
    /\ process = "running"
    /\ written < MaxLines
    /\ written' = written + 1
    /\ stdoutBuf' = Append(stdoutBuf, written + 1)
    /\ UNCHANGED <<pc, tunnelForward, attempts, connection, disposals, process,
                   kills, output, pipe, pipeError, streams, race, raceError,
                   thrown, result>>

\* The capture pipe moves a line: write(chunk) { output.push(chunk); }
Capture ==
    /\ pipe = "running"
    /\ stdoutBuf # <<>>
    /\ output' = Append(output, Head(stdoutBuf))
    /\ stdoutBuf' = Tail(stdoutBuf)
    /\ UNCHANGED <<pc, tunnelForward, attempts, connection, disposals, process,
                   kills, written, pipe, pipeError, streams, race, raceError,
                   thrown, result>>

\* process.exit settles; its then() callback throws AdbScrcpyExitedError,
\* which settles the race if nothing settled it before.
ProcessExits ==
    /\ process = "running"
    /\ process' = "exited"
    /\ race' = IF race = "pending" THEN "exited" ELSE race
    /\ UNCHANGED <<pc, tunnelForward, attempts, connection, disposals, kills,
                   written, stdoutBuf, output, pipe, pipeError, streams,
                   raceError, thrown, result>>

\* connection.getStreams() yields the stream bundle
StreamsYielded ==
    /\ streams = "pending"
    /\ streams' = "resolved"
    /\ race' = IF race = "pending" THEN "streams" ELSE race
    /\ UNCHANGED <<pc, tunnelForward, attempts, connection, disposals, process,
                   kills, written, stdoutBuf, output, pipe, pipeError,
                   raceError, thrown, result>>

\* connection.getStreams() rejects with e
StreamsFailed(e) ==
    /\ streams = "pending"
    /\ streams' = "rejected"
    /\ race' = IF race = "pending" THEN "failed" ELSE race
    /\ raceError' = IF race = "pending" THEN e ELSE raceError
    /\ UNCHANGED <<pc, tunnelForward, attempts, connection, disposals, process,
                   kills, written, stdoutBuf, output, pipe, pipeError,
                   thrown, result>>

\* The capture pipe ends with the process's stdout
PipeFinishes ==
    /\ pipe = "running"
    /\ process = "exited"
    /\ stdoutBuf = <<>>
    /\ pipe' = "finished"
    /\ UNCHANGED <<pc, tunnelForward, attempts, connection, disposals, process,
                   kills, written, stdoutBuf, output, pipeError, streams, race,
                   raceError, thrown, result>>

\* The capture pipe fails with e before the abort: the catch of lines
\* 182-188 rethrows e.
PipeFails(e) ==
    /\ pipe = "running"
    /\ pipe' = "failed"
    /\ pipeError' = e
    /\ UNCHANGED <<pc, tunnelForward, attempts, connection, disposals, process,
                   kills, written, stdoutBuf, output, streams, race, raceError,
                   thrown, result>>

\* What the settled race makes of start(): the first settlement decides.
RaceOutcomeExitWins(r, exited) == IF exited THEN "exited" ELSE r

RaceOutcome(r, exited) == r

\* Lines 190-197: the await of the race returns or throws; on success the
\* capture is aborted.
RaceSettled ==
    /\ pc = "race"
    /\ race # "pending"
    /\ LET won == RaceOutcome(race, process = "exited") IN
       CASE won = "streams" ->
              /\ pipe' = IF pipe = "running" THEN "aborted" ELSE pipe
              /\ pc' = "awaitPipe"
              /\ UNCHANGED thrown
         [] won = "exited" ->
              /\ thrown' = ExitedError
              /\ pc' = "catch"
              /\ UNCHANGED pipe
         [] OTHER ->
              /\ thrown' = raceError
              /\ pc' = "catch"
              /\ UNCHANGED pipe
    /\ UNCHANGED <<tunnelForward, attempts, connection, disposals, process, kills,
                   written, stdoutBuf, output, pipeError, streams, race,
                   raceError, result>>

\* Lines 198-207: await pipe, then the client is built and returned.
AwaitPipe ==
    /\ pc = "awaitPipe"
    /\ IF pipe = "failed"
       THEN thrown' = pipeError /\ pc' = "catch"
       ELSE UNCHANGED thrown /\ pc' = "finally"
    /\ UNCHANGED <<tunnelForward, attempts, connection, disposals, process, kills,
                   written, stdoutBuf, output, pipe, pipeError, streams, race,
                   raceError, result>>

\* A catch block that rethrows without killing the process.
CatchNoKill ==
    /\ pc = "catch"
    /\ pc' = "finally"
    /\ UNCHANGED <<tunnelForward, attempts, connection, disposals, process, kills,
                   written, stdoutBuf, output, pipe, pipeError, streams, race,
                   raceError, thrown, result>>

\* Lines 208-210: catch (e) { await process?.kill(); throw e; }
Catch ==
    /\ pc = "catch"
    /\ kills' = IF process = "undefined" THEN kills ELSE kills + 1
    /\ pc' = "finally"
    /\ UNCHANGED <<tunnelForward, attempts, connection, disposals, process,
                   written, stdoutBuf, output, pipe, pipeError, streams, race,
                   raceError, thrown, result>>

\* A finally block that leaves the connection as it is.
FinallyKeepsConnection ==
    /\ pc = "finally"
    /\ result' = IF thrown = NoError THEN Resolved(Undefined) ELSE Rejected(thrown)
    /\ pc' = "done"
    /\ UNCHANGED <<tunnelForward, attempts, connection, disposals, process, kills,
                   written, stdoutBuf, output, pipe, pipeError, streams, race,
                   raceError, thrown>>

\* Lines 211-213: finally { connection?.dispose(); }, and start() settles.
Finally ==
    /\ pc = "finally"
    /\ disposals' = IF connection = 0 THEN disposals ELSE Append(disposals, connection)
    /\ result' = IF thrown = NoError THEN Resolved(Undefined) ELSE Rejected(thrown)
    /\ pc' = "done"
    /\ UNCHANGED <<tunnelForward, attempts, connection, process, kills, written,
                   stdoutBuf, output, pipe, pipeError, streams, race, raceError,
                   thrown>>

\* The client's stdout read from the process's stream before the captured
\* lines are exhausted.
ClientReadsStdoutFirst ==
    /\ pc = "done"
    /\ result.state = "resolved"
    /\ IF stdoutBuf # <<>>
       THEN /\ clientOut' = Append(clientOut, Head(stdoutBuf))
            /\ stdoutBuf' = Tail(stdoutBuf)
       ELSE /\ Len(clientOut) < Len(output)
            /\ clientOut' = Append(clientOut, output[Len(clientOut) + 1])
            /\ UNCHANGED stdoutBuf
    /\ UNCHANGED <<pc, tunnelForward, attempts, connection, disposals, process,
                   kills, written, output, pipe, pipeError, streams, race,
                   raceError, thrown, result>>

\* A read of the returned client's stdout, lines 44-65 and 204:
\* concatStreams(arrayToStream(output), stdout) yields the items of `output`
\* in array order and, when they are exhausted, what `stdout` yields.
ClientReads ==
    /\ pc = "done"
    /\ result.state = "resolved"
    /\ IF Len(clientOut) < Len(output)
       THEN /\ clientOut' = Append(clientOut, output[Len(clientOut) + 1])
            /\ UNCHANGED stdoutBuf
       ELSE /\ stdoutBuf # <<>>
            /\ clientOut' = Append(clientOut, Head(stdoutBuf))
            /\ stdoutBuf' = Tail(stdoutBuf)
    /\ UNCHANGED <<pc, tunnelForward, attempts, connection, disposals, process,
                   kills, written, output, pipe, pipeError, streams, race,
                   raceError, thrown, result>>

StartNext ==
    \/ \E o \in InitializeOutcomes : Establish(o) /\ UNCHANGED exceptStart
    \/ \E o \in InitializeOutcomes : Fallback(o) /\ UNCHANGED exceptStart
    \/ SpawnOk /\ UNCHANGED exceptStart
    \/ \E e \in Errors : SpawnFails(e) /\ UNCHANGED exceptStart
    \/ ProcessWrites /\ UNCHANGED exceptStart
    \/ Capture /\ UNCHANGED exceptStart
    \/ ProcessExits /\ UNCHANGED exceptStart
    \/ StreamsYielded /\ UNCHANGED exceptStart
    \/ \E e \in Errors : StreamsFailed(e) /\ UNCHANGED exceptStart
    \/ PipeFinishes /\ UNCHANGED exceptStart
    \/ \E e \in Errors : PipeFails(e) /\ UNCHANGED exceptStart
    \/ RaceSettled /\ UNCHANGED exceptStart
    \/ AwaitPipe /\ UNCHANGED exceptStart
    \/ Catch /\ UNCHANGED exceptStart
    \/ Finally /\ UNCHANGED exceptStart
    \/ ClientReads /\ UNCHANGED exceptClient

----------------------------------------------------------------------------
\* AdbScrcpyClient.#parseDeviceMessages(controlStream), lines 338-359

\* The error readExactly throws when the stream ends before the bytes asked
\* for have arrived
ExactReadableEnded == "ExactReadableEndedError"

\* The type tags of device messages
MessageTypes == {0, 1}

ControlInit ==
    /\ reader = "readType"
    /\ parsed = <<>>
    /\ finalized = <<>>
    /\ cancelled = <<>>
    /\ cause = [where |-> "none", error |-> NoError]

\* A loop whose inner try block covers parseDeviceMessage too.
IsCleanEndAnywhere(where, e) == e = ExactReadableEnded

\* Lines 343-352: only the read of the type tag is inside the inner try
\* block, whose catch takes ExactReadableEndedError for the clean end.
IsCleanEnd(where, e) == where = "type" /\ e = ExactReadableEnded

\* A loop without the break of line 349: after the clean end it reads on.
LeaveWithoutBreak(where, e) ==
    /\ cause' = [where |-> where, error |-> e]
    /\ IF IsCleanEnd(where, e)
       THEN /\ finalized' = Append(finalized, NoError)
            /\ reader' = "readType"
            /\ UNCHANGED cancelled
       ELSE /\ finalized' = Append(finalized, e)
            /\ cancelled' = Append(cancelled, e)
            /\ reader' = "done"
    /\ UNCHANGED parsed

\* The loop ends on error e thrown at `where`: lines 347-349 for the clean
\* end, lines 355-358 for everything else.
Leave(where, e) ==
    /\ cause' = [where |-> where, error |-> e]
    /\ IF IsCleanEnd(where, e)
       THEN /\ finalized' = Append(finalized, NoError)
            /\ UNCHANGED cancelled
       ELSE /\ finalized' = Append(finalized, e)
            /\ cancelled' = Append(cancelled, e)
    /\ reader' = "done"
    /\ UNCHANGED parsed

\* Lines 344-345 and 353: readExactly(1) yields the type tag and
\* parseDeviceMessage(type, buffered) is called.
ReadTypeOk(type) ==
    /\ reader = "readType"
    /\ Len(parsed) < MaxMessages
    /\ parsed' = Append(parsed, type)
    /\ reader' = "parsing"
    /\ UNCHANGED <<finalized, cancelled, cause>>

\* readExactly(1) throws e: ExactReadableEndedError when the channel has
\* ended, another error when the channel failed.
ReadTypeFails(e) ==
    /\ reader = "readType"
    /\ Leave("type", e)

\* parseDeviceMessage returns and the loop goes round.
ParseReturns ==
    /\ reader = "parsing"
    /\ reader' = "readType"
    /\ UNCHANGED <<parsed, finalized, cancelled, cause>>

\* parseDeviceMessage throws e: ExactReadableEndedError when the channel
\* ended inside the payload, another error when the decoder or the channel
\* failed.
ParseThrows(e) ==
    /\ reader = "parsing"
    /\ Leave("payload", e)

ControlNext ==
    \/ \E t \in MessageTypes : ReadTypeOk(t) /\ UNCHANGED exceptControl
    \/ \E e \in Errors \cup {ExactReadableEnded} :
          ReadTypeFails(e) /\ UNCHANGED exceptControl
    \/ ParseReturns /\ UNCHANGED exceptControl
    \/ \E e \in Errors \cup {ExactReadableEnded} :
          ParseThrows(e) /\ UNCHANGED exceptControl

----------------------------------------------------------------------------
\* AdbShellProtocolPacket (part_000 lines 36-42): struct({ id: u8, data:
\* buffer(u32) }, { littleEndian: true }), serialized and decoded from a
\* source that delivers the bytes in chunks

\* The byte values payloads are made of
Bytes == {0, 255}

\* The payloads that are serialized
Payloads == UNION {[1..n -> Bytes] : n \in 0..MaxPayload}

\* A value stored into a Uint8Array element
ToByte(v) == v % 256

\* u8: serialize stores the value at buffer[index], deserialize reads one
\* byte and returns data[0]
U8Serialize(v) == <<ToByte(v)>>

U8Deserialize(data) == data[1]

\* setUint32(buffer, index, value, littleEndian)
SetUint32(v, littleEndian) ==
    LET b0 == v % 256
        b1 == (v \div 256) % 256
        b2 == (v \div 65536) % 256
        b3 == (v \div 16777216) % 256
    IN IF littleEndian THEN <<b0, b1, b2, b3>> ELSE <<b3, b2, b1, b0>>

\* getUint32(data, 0, littleEndian)
GetUint32(data, littleEndian) ==
    IF littleEndian
    THEN data[1] + 256 * data[2] + 65536 * data[3] + 16777216 * data[4]
    ELSE data[4] + 256 * data[3] + 65536 * data[2] + 16777216 * data[1]

\* The schema's flag: { littleEndian: true }
LittleEndian == TRUE

\* AdbShellProtocolPacket.serialize({ id, data }): the fields in schema
\* order, the payload behind its u32 length
Serialize(p) ==
    U8Serialize(p.id) \o SetUint32(Len(p.data), LittleEndian) \o p.data

\* A reader that hands over whatever is buffered instead of n bytes.
ReadAvailable(buf, n) == [data |-> buf, rest |-> <<>>]

\* reader.readExactly(n) on buffered bytes: the first n, the rest stays
ReadExactly(buf, n) ==
    [data |-> SubSeq(buf, 1, n), rest |-> SubSeq(buf, n + 1, Len(buf))]

NothingDecoded == [id |-> Undefined, length |-> Undefined, data |-> <<>>]

CodecInit ==
    /\ packet \in [id : Ids, data : Payloads]
    /\ wire = Serialize(packet)
    /\ chunks = <<>>
    /\ buffered = <<>>
    /\ field = "id"
    /\ decoded = NothingDecoded

\* The source delivers its next chunk, of n bytes.
Deliver(n) ==
    /\ n <= Len(wire)
    /\ buffered' = buffered \o SubSeq(wire, 1, n)
    /\ wire' = SubSeq(wire, n + 1, Len(wire))
    /\ chunks' = Append(chunks, n)
    /\ UNCHANGED <<packet, field, decoded>>

\* The field `id`: u8.deserialize resumes once one byte is there.
DecodeId ==
    /\ field = "id"
    /\ Len(buffered) >= 1
    /\ LET r == ReadExactly(buffered, 1) IN
         /\ decoded' = [decoded EXCEPT !.id = U8Deserialize(r.data)]
         /\ buffered' = r.rest
    /\ field' = "length"
    /\ UNCHANGED <<packet, wire, chunks>>

\* The length prefix of `data`: u32.deserialize resumes once four bytes are
\* there.
DecodeLength ==
    /\ field = "length"
    /\ Len(buffered) >= 4
    /\ LET r == ReadExactly(buffered, 4) IN
         /\ decoded' = [decoded EXCEPT !.length = GetUint32(r.data, LittleEndian)]
         /\ buffered' = r.rest
    /\ field' = "data"
    /\ UNCHANGED <<packet, wire, chunks>>

\* The payload: exactly `length` bytes are read, and the packet is complete.
DecodeData ==
    /\ field = "data"
    /\ Len(buffered) >= decoded.length
    /\ LET r == ReadExactly(buffered, decoded.length) IN
         /\ decoded' = [decoded EXCEPT !.data = r.data]
         /\ buffered' = r.rest
    /\ field' = "done"
    /\ UNCHANGED <<packet, wire, chunks>>

CodecNext ==
    \/ \E n \in 1..(MaxPayload + 5) : Deliver(n) /\ UNCHANGED exceptCodec
    \/ DecodeId /\ UNCHANGED exceptCodec
    \/ DecodeLength /\ UNCHANGED exceptCodec
    \/ DecodeData /\ UNCHANGED exceptCodec

----------------------------------------------------------------------------
\* The numeric fields u8 .. s64 (libraries/struct/src/number.ts)

FieldNames == {"u8", "s8", "u16", "s16", "u32", "s32", "u64", "s64"}

\* The size each field is registered with: the second argument of factory()
FieldSize(f) ==
    CASE f \in {"u8", "s8"} -> 1
      [] f \in {"u16", "s16"} -> 2
      [] f \in {"u32", "s32"} -> 4
      [] OTHER -> 8

\* The argument of reader.readExactly() in each field's deserialize
ReadCount(f) ==
    CASE f \in {"u8", "s8"} -> 1
      [] f \in {"u16", "s16"} -> 2
      [] f \in {"u32", "s32"} -> 4
      [] OTHER -> 8

\* A deserialize that reads every field with the unsigned getter.
GetterSignedNever(f) == FALSE

\* Whether the getter of a field's deserialize is a signed one: data[0] and
\* getUintN are unsigned, getIntN is signed.
GetterSigned(f) == f \in {"s8", "s16", "s32", "s64"}

\* What the field returns when it is called as a function: the arrow
\* function each constant is initialised with (lines 36, 49, 62, 75, 88,
\* 101, 114, 127)
Called(f) ==
    CASE f = "s16" -> "u16"
      [] f = "s64" -> "u64"
      [] OTHER -> f

\* What the name of a field declares: s for signed, u for unsigned
DeclaredSigned(f) == f \in {"s8", "s16", "s32", "s64"}

\* Numbers of up to 64 bits: a sign and the magnitude as bytes, the most
\* significant first
NoValue == [neg |-> FALSE, mag |-> <<>>]

Reverse(s) == [i \in 1..Len(s) |-> s[Len(s) + 1 - i]]

\* The bytes of a field in the order of significance the schema's flag gives
MostSignificantFirst(data, littleEndian) ==
    IF littleEndian THEN Reverse(data) ELSE data

Invert(m) == [i \in 1..Len(m) |-> 255 - m[i]]

RECURSIVE AddOne(_)
AddOne(m) ==
    IF m = <<>> THEN <<>>
    ELSE LET front == SubSeq(m, 1, Len(m) - 1) IN
         IF m[Len(m)] = 255 THEN AddOne(front) \o <<0>>
         ELSE front \o <<m[Len(m)] + 1>>

\* getUintN(data, 0, littleEndian), and data[0] for one byte
GetUint(data, littleEndian) ==
    [neg |-> FALSE, mag |-> MostSignificantFirst(data, littleEndian)]

\* getIntN(data, 0, littleEndian): two's complement
GetInt(data, littleEndian) ==
    LET m == MostSignificantFirst(data, littleEndian) IN
    IF m[1] >= 128 THEN [neg |-> TRUE, mag |-> AddOne(Invert(m))]
    ELSE [neg |-> FALSE, mag |-> m]

\* getInt8(buffer, offset): (buffer[offset] << 24) >> 24
GetInt8(data) ==
    IF data[1] >= 128 THEN [neg |-> TRUE, mag |-> <<256 - data[1]>>]
    ELSE [neg |-> FALSE, mag |-> <<data[1]>>]

\* The value a field's deserialize returns for the bytes it read
FieldValue(f, data, littleEndian) ==
    IF GetterSigned(f)
    THEN IF f = "s8" THEN GetInt8(data) ELSE GetInt(data, littleEndian)
    ELSE GetUint(data, littleEndian)

\* A field is chosen, the schema's flag is set, and the reader holds one
\* byte more than the field's size.
NumberInit ==
    \E f \in FieldNames, le \in BOOLEAN :
        \E src \in [1..(FieldSize(f) + 1) -> Bytes] :
            number = [field |-> f, used |-> f, narrowed |-> FALSE,
                      little |-> le, given |-> src, source |-> src,
                      requested |-> Undefined, value |-> NoValue,
                      phase |-> "chosen"]

\* The field is called as a function, F() or F(x), and what it returns is
\* put into the schema.
Narrow ==
    /\ number.phase = "chosen"
    /\ ~number.narrowed
    /\ number' = [number EXCEPT !.used = Called(number.field), !.narrowed = TRUE]

\* deserialize of the field in the schema: one readExactly(n), then the
\* getter on the bytes read.
DeserializeNumber ==
    /\ number.phase = "chosen"
    /\ LET n == ReadCount(number.used) IN
         number' = [number EXCEPT
            !.requested = n,
            !.value = FieldValue(number.used, ReadExactly(number.source, n).data,
                                 number.little),
            !.source = ReadExactly(number.source, n).rest,
            !.phase = "decoded"]

NumberNext ==
    \/ Narrow /\ UNCHANGED exceptNumber
    \/ DeserializeNumber /\ UNCHANGED exceptNumber

----------------------------------------------------------------------------
\* The stdin of a shell-v2 session (part_000 lines 148-159)

StdinInit ==
    stdin = [written |-> <<>>, sent |-> <<>>, acked |-> 0, completed |-> 0,
             failed |-> NoError]

\* The packet a chunk is wrapped in: { id: AdbShellProtocolId.Stdin, data:
\* chunk }
StdinPacket(chunk) == [id |-> Stdin, data |-> chunk]

\* A caller writes a chunk to #stdin; the stream queues it.
StdinWrite(chunk) ==
    /\ Len(stdin.written) < MaxChunks
    /\ stdin.failed = NoError
    /\ stdin' = [stdin EXCEPT !.written = Append(@, chunk)]

\* The stream calls the sink's write for the next chunk, when the write of
\* the chunk before has returned: the serialized packet is passed to
\* #writer.write (lines 152-157).
SinkWrite ==
    /\ stdin.failed = NoError
    /\ Len(stdin.sent) < Len(stdin.written)
    /\ Len(stdin.sent) = stdin.completed
    /\ stdin' = [stdin EXCEPT
         !.sent = Append(@, Serialize(StdinPacket(stdin.written[Len(stdin.sent) + 1])))]

\* The socket writer's write() fulfils.
SocketWriteFulfils ==
    /\ stdin.failed = NoError
    /\ stdin.acked < Len(stdin.sent)
    /\ stdin' = [stdin EXCEPT !.acked = @ + 1]

\* The socket writer's write() rejects with e: the sink's write rejects and
\* the stream is errored.
SocketWriteRejects(e) ==
    /\ stdin.failed = NoError
    /\ stdin.acked < Len(stdin.sent)
    /\ stdin' = [stdin EXCEPT !.failed = e]

\* A sink whose write returns without awaiting #writer.write.
ChunkWriteCompletesUnawaited ==
    /\ stdin.failed = NoError
    /\ stdin.completed < Len(stdin.sent)
    /\ stdin' = [stdin EXCEPT !.completed = @ + 1]

\* The await of line 152 returns, the sink's write returns and the write of
\* the chunk completes.
ChunkWriteCompletes ==
    /\ stdin.failed = NoError
    /\ stdin.completed < stdin.acked
    /\ stdin' = [stdin EXCEPT !.completed = @ + 1]

StdinNext ==
    \/ \E chunk \in Payloads : StdinWrite(chunk) /\ UNCHANGED exceptStdin
    \/ SinkWrite /\ UNCHANGED exceptStdin
    \/ SocketWriteFulfils /\ UNCHANGED exceptStdin
    \/ \E e \in Errors : SocketWriteRejects(e) /\ UNCHANGED exceptStdin
    \/ ChunkWriteCompletes /\ UNCHANGED exceptStdin

----------------------------------------------------------------------------
\* The video stream of AdbScrcpyClient (part_003 lines 361-420)

\* metadata.codec: the three codecs of ScrcpyVideoCodecId and any other value
VideoCodecs == {"H264", "H265", "AV1", "other"}

\* What a parser finds in a packet's data: a size, or nothing (an AV1
\* packet without sequence header)
NoGeometry == [width |-> Undefined, height |-> Undefined]

Geometries == {[width |-> 1080, height |-> 1920], [width |-> 720, height |-> 1280]}

VideoPackets == [type : {"configuration", "data"}, holds : Geometries \cup {NoGeometry}]

VideoInit ==
    \E c \in VideoCodecs :
        video = [codec |-> c, screenWidth |-> Undefined,
                 screenHeight |-> Undefined, inspected |-> <<>>]

\* An inspector that takes the configuration packets of an AV1 stream for
\* sequence headers too.
ConfigureCallsAv1Always(codec, type) ==
    IF type = "configuration"
    THEN CASE codec = "H264" -> {"configureH264"}
           [] codec = "H265" -> {"configureH265"}
           [] codec = "AV1" -> {"configureAv1"}
           [] OTHER -> {}
    ELSE IF codec = "AV1" THEN {"configureAv1"} ELSE {}

\* The callback of the InspectStream, lines 400-416: the functions it calls
\* for a packet of the given type.
ConfigureCalls(codec, type) ==
    IF type = "configuration"
    THEN CASE codec = "H264" -> {"configureH264"}
           [] codec = "H265" -> {"configureH265"}
           [] OTHER -> {}
    ELSE IF codec = "AV1" THEN {"configureAv1"} ELSE {}

\* What a called function makes of the screen size, lines 361-390: the
\* H.264 and H.265 functions store what the parser returns, the AV1
\* function returns early when there is no sequence header.
Configured(fn, size, pkt) ==
    IF fn = "configureAv1" /\ pkt.holds = NoGeometry THEN size
    ELSE pkt.holds

\* A packet passes the inspector.
Inspect(pkt) ==
    /\ Len(video.inspected) < MaxVideoPackets
    /\ LET fns == ConfigureCalls(video.codec, pkt.type)
           size == [width |-> video.screenWidth, height |-> video.screenHeight]
           new == IF fns = {} THEN size
                  ELSE Configured(CHOOSE f \in fns : TRUE, size, pkt)
       IN video' = [video EXCEPT
            !.screenWidth = new.width,
            !.screenHeight = new.height,
            !.inspected = Append(@, [type |-> pkt.type, holds |-> pkt.holds,
                                     called |-> fns])]

VideoNext ==
    \/ \E pkt \in VideoPackets :
          /\ pkt.type = "configuration" /\ video.codec \in {"H264", "H265"}
                => pkt.holds # NoGeometry
          /\ Inspect(pkt)
          /\ UNCHANGED exceptVideo

----------------------------------------------------------------------------
\* The spawn of the agent process (part_003 lines 146-161)

ServerPaths == {"/data/local/tmp/scrcpy-server.jar", "/sdcard/server.jar"}

Versions == {"2.6.1", "2.4", "1.16"}

\* What options.serialize() can hold
OptionStrings == {"log_level=debug", "tunnel_forward=true", "audio=false"}

SerializedOptions == UNION {[1..n -> OptionStrings] : n \in 0..MaxOptions}

NoneProtocol == "AdbSubprocessNoneProtocol"

SpawnInit ==
    \E p \in ServerPaths, v \in Versions, o \in SerializedOptions :
        spawn = [path |-> p, version |-> v, serialized |-> o,
                 called |-> FALSE, args |-> <<>>, protocols |-> <<>>]

\* `CLASSPATH=${path}`
ClassPath(path) == <<"CLASSPATH=", path>>

\* An argument list with the options before the version.
SpawnArgumentsOptionsFirst(path, version, serialized) ==
    <<ClassPath(path), "app_process", "/", "com.genymobile.scrcpy.Server">>
        \o serialized \o <<version>>

\* The first argument of spawn, lines 147-154
SpawnArguments(path, version, serialized) ==
    <<ClassPath(path), "app_process", "/", "com.genymobile.scrcpy.Server",
      version>> \o serialized

\* adb.subprocess.spawn(arguments, { protocols: [AdbSubprocessNoneProtocol] })
Spawn ==
    /\ ~spawn.called
    /\ spawn' = [spawn EXCEPT
         !.called = TRUE,
         !.args = SpawnArguments(spawn.path, spawn.version, spawn.serialized),
         !.protocols = <<NoneProtocol>>]

SpawnNext ==
    \/ Spawn /\ UNCHANGED exceptSpawn

----------------------------------------------------------------------------
\* The queuing strategies of Consumable.WritableStream and
\* ConsumableReadableStream (consumable.ts lines 111-128 and 183-198)

\* A strategy without highWaterMark has Undefined for it, one without size
\* function has "none"; the size functions users give are the byte length
\* of the chunk and the constant 1.
Strategies == [highWaterMark : {Undefined, 0, 4}, size : {"none", "byteLength", "one"}]

StrategyInit ==
    \E k \in {"writable", "readable"}, g \in Strategies :
        strategy = [kind |-> k, given |-> g, constructed |-> FALSE,
                    wrapped |-> [highWaterMark |-> Undefined, size |-> "none"],
                    queued |-> <<>>]

\* A chunk as the stream's queue sees it: a Consumable around a value
Envelope(value) == [consumable |-> TRUE, value |-> value]

\* A chunk that is the value itself
Bare(value) == [consumable |-> FALSE, value |-> value]

\* The user's size function applied to x: a Consumable has no byte length
UserSize(fn, x) ==
    IF fn = "byteLength"
    THEN IF x.consumable THEN Undefined ELSE Len(x.value)
    ELSE 1

\* A wrapped size function that hands the chunk on as it is.
WrappedSizeOfChunk(kind, fn, chunk) == UserSize(fn, chunk)

\* wrappedStrategy.size, lines 120-124 and 193-195: the user's function
\* applied to chunk.value
WrappedSize(kind, fn, chunk) ==
    IF kind = "writable"
    THEN UserSize(fn, IF chunk.consumable THEN Bare(chunk.value) ELSE chunk)
    ELSE UserSize(fn, Bare(chunk.value))

\* The constructor builds wrappedStrategy, lines 115-126 and 187-197:
\* highWaterMark is copied when present, size is wrapped when present.
ConstructStream ==
    /\ ~strategy.constructed
    /\ strategy' = [strategy EXCEPT !.constructed = TRUE, !.wrapped = strategy.given]

\* A Consumable is queued in the stream; the stream asks the strategy it
\* was given by the constructor for the chunk's size (1 without size
\* function).
QueueChunk(value) ==
    /\ strategy.constructed
    /\ Len(strategy.queued) < MaxQueued
    /\ LET chunk == Envelope(value)
           size == IF strategy.wrapped.size = "none" THEN 1
                   ELSE WrappedSize(strategy.kind, strategy.wrapped.size, chunk)
       IN strategy' = [strategy EXCEPT
            !.queued = Append(@, [value |-> value, size |-> size])]

StrategyNext ==
    \/ ConstructStream /\ UNCHANGED exceptStrategy
    \/ \E value \in Payloads : QueueChunk(value) /\ UNCHANGED exceptStrategy

----------------------------------------------------------------------------
\* ScrollController.serializeScrollMessage (scroll-controller.ts, exercised
\* by the test in part_001 lines 20-103)

\* Distances are counted in quarters of a scroll unit, so 0.5 is 2 and 1.5
\* is 6.
Unit == 4

Distances == {-6, -2, -1, 0, 1, 2, 6}

NoMessage == [scrollX |-> 0, scrollY |-> 0]

ScrollInit ==
    scroll = [accumulatedX |-> 0, accumulatedY |-> 0, calls |-> 0,
              given |-> [scrollX |-> 0, scrollY |-> 0],
              returned |-> NoMessage, messages |-> 0]

Abs(a) == IF a < 0 THEN -a ELSE a

\* The whole units in an accumulated distance, towards zero
Whole(a) == IF a < 0 THEN -((-a) \div Unit) ELSE a \div Unit

\* A controller that forgets what is left over once it emitted.
RemainderForgotten(a) == IF Whole(a) = 0 THEN a ELSE 0

\* What stays in the accumulator once the whole units were emitted
Remainder(a) == a - Unit * Whole(a)

\* One call: the distances are added to the accumulators; without a whole
\* unit on either axis the call returns undefined, else it returns one
\* message carrying the whole units and keeps the remainders.
serializeScrollMessage(dx, dy) ==
    /\ scroll.calls < MaxScrolls
    /\ LET x == scroll.accumulatedX + dx
           y == scroll.accumulatedY + dy
           message == [scrollX |-> Whole(x), scrollY |-> Whole(y)]
       IN scroll' = [accumulatedX |-> Remainder(x),
                     accumulatedY |-> Remainder(y),
                     calls |-> scroll.calls + 1,
                     given |-> [scrollX |-> dx, scrollY |-> dy],
                     returned |-> message,
                     messages |-> scroll.messages +
                                  (IF message = NoMessage THEN 0 ELSE 1)]

ScrollNext ==
    \E dx \in Distances, dy \in Distances :
        serializeScrollMessage(dx, dy) /\ UNCHANGED exceptScroll

----------------------------------------------------------------------------
\* Specifications

\* The parts of the model a specification does not run
NumberAtRest ==
    /\ NumberInit
    /\ number.field = "u8" /\ number.little /\ number.given = <<0, 0>>

\* The parts added later, at rest but for the one a specification runs
LaterAtRest(part) ==
    /\ part # "number" => NumberAtRest
    /\ part # "stdin" => StdinInit
    /\ part # "video" => (VideoInit /\ video.codec = "H264")
    /\ part # "strategy" =>
          /\ StrategyInit
          /\ strategy.kind = "writable"
          /\ strategy.given = [highWaterMark |-> Undefined, size |-> "none"]
    /\ part # "scroll" => ScrollInit
    /\ part # "spawn" =>
          /\ SpawnInit
          /\ spawn.path = "/sdcard/server.jar"
          /\ spawn.version = "2.6.1"
          /\ spawn.serialized = <<>>

\* The parts of the model a specification does not run
AtRest ==
    /\ ConsumableInit /\ EnvelopeInit /\ ControlInit
    /\ CodecInit /\ packet = [id |-> Stdin, data |-> <<>>]
    /\ LaterAtRest("none")

\* The same without the parts added later
EarlierAtRest ==
    /\ ConsumableInit /\ EnvelopeInit /\ ControlInit
    /\ CodecInit /\ packet = [id |-> Stdin, data |-> <<>>]
    /\ ShellInit /\ signal = "none" /\ StartInit /\ ~tunnelForward

\* A Consumable on its own; no session is constructed.
InitConsumable ==
    /\ AtRest
    /\ ShellInit /\ signal = "none" /\ StartInit /\ ~tunnelForward

SpecConsumable == InitConsumable /\ [][ConsumableNext]_vars

\* A Consumable made by a producer's write() or enqueue() and handed to a
\* consumer that may call consume(), error() and tryConsume().
InitEnvelope ==
    /\ AtRest
    /\ ShellInit /\ signal = "none" /\ StartInit /\ ~tunnelForward

SpecEnvelope == InitEnvelope /\ [][EnvelopeNext]_vars

\* A shell-v2 session on its own.
InitShell ==
    AtRest /\ ShellInit /\ StartInit /\ ~tunnelForward

SpecShell == InitShell /\ [][ShellNext]_vars

\* One run of AdbScrcpyClient.start on its own.
InitStart ==
    AtRest /\ ShellInit /\ signal = "none" /\ StartInit

SpecStart == InitStart /\ [][StartNext]_vars

\* One control channel read by #parseDeviceMessages.
InitControl ==
    AtRest /\ ShellInit /\ signal = "none" /\ StartInit /\ ~tunnelForward

SpecControl == InitControl /\ [][ControlNext]_vars

\* One packet serialized, delivered in chunks and decoded.
InitCodec ==
    /\ ConsumableInit /\ EnvelopeInit /\ ControlInit /\ CodecInit
    /\ LaterAtRest("none")
    /\ ShellInit /\ signal = "none" /\ StartInit /\ ~tunnelForward

SpecCodec == InitCodec /\ [][CodecNext]_vars

\* One numeric field decoding once, as it is or after it was called.
InitNumber == EarlierAtRest /\ LaterAtRest("number") /\ NumberInit

SpecNumber == InitNumber /\ [][NumberNext]_vars

\* The stdin of one session and the socket writer behind it.
InitStdin == EarlierAtRest /\ LaterAtRest("stdin") /\ StdinInit

SpecStdin == InitStdin /\ [][StdinNext]_vars

\* The video packets of one client passing the inspector.
InitVideo == EarlierAtRest /\ LaterAtRest("video") /\ VideoInit

SpecVideo == InitVideo /\ [][VideoNext]_vars

\* One spawn of the agent process.
InitSpawn == EarlierAtRest /\ LaterAtRest("spawn") /\ SpawnInit

SpecSpawn == InitSpawn /\ [][SpawnNext]_vars

\* One Consumable stream constructed with a queuing strategy.
InitStrategy == EarlierAtRest /\ LaterAtRest("strategy") /\ StrategyInit

SpecStrategy == InitStrategy /\ [][StrategyNext]_vars

\* One scroll controller called with some distances.
InitScroll == EarlierAtRest /\ LaterAtRest("scroll") /\ ScrollInit

SpecScroll == InitScroll /\ [][ScrollNext]_vars

\* Once the socket was closed its readable side ends or fails, and the pipe
\* settles when no write() is outstanding.
SocketEnds ==
    /\ socketClosed
    /\ (PipeFulfilled \/ \E e \in Errors : PipeRejected(e))
    /\ UNCHANGED exceptShell

\* The session under the scheduling its code has: an awaited enqueue()
\* resumes once its queue has room, and a closed socket ends the pipe.
\* Nothing makes the consumers of stdout and stderr read.
SpecShellFair ==
    /\ InitShell
    /\ [][ShellNext]_vars
    /\ WF_vars(EnqueueResumed /\ UNCHANGED exceptShell)
    /\ WF_vars(SocketEnds)

----------------------------------------------------------------------------
\* Helpers of the properties

\* The payloads of the packets of seq that carry the given id, in order
RECURSIVE PayloadsWith(_, _)
PayloadsWith(seq, id) ==
    IF seq = <<>> THEN <<>>
    ELSE IF Head(seq).id = id
         THEN <<Head(seq).data>> \o PayloadsWith(Tail(seq), id)
         ELSE PayloadsWith(Tail(seq), id)

\* The payload of the enqueue() the pump is awaiting on a channel
PendingOn(chan) == IF pending.chan = chan THEN <<pending.data>> ELSE <<>>

\* The chunks a stream accepted: those read and those still queued
Accepted(s) == s.taken \o s.queue

ExitPayloadsSeen == PayloadsWith(inbound, Exit)

Terminal(s) == s.state \in {"closed", "errored"}

----------------------------------------------------------------------------
\* C1: a Consumable starts pending and the first consume()/error(e) call
\* decides its state (consumed, or errored with that e); every later call
\* leaves the state and the stored error as they are.
C1_FirstCallDecides ==
    /\ calls = <<>> => resolver = NewResolver
    /\ calls # <<>> =>
         resolver = IF calls[1].op = "consume"
                    THEN Resolved(Undefined)
                    ELSE Rejected(calls[1].e)

C1_Witness ==
    /\ Len(calls) >= 3
    /\ calls[1].op = "error"
    /\ calls[2].op = "consume"
    /\ calls[3].op = "error" /\ calls[3].e # calls[1].e
    /\ resolver.state = "rejected"

\* C2: what was pushed to the stdout queue is the subsequence of stdout
\* payloads in wire order, what was pushed to the stderr queue the
\* subsequence of stderr payloads; and until a queue is errored, the chunks
\* it accepted followed by the one still waiting are what was pushed.
C2_ChannelsKeepWireOrder ==
    /\ stdout.enqueued = PayloadsWith(inbound, Stdout)
    /\ stderr.enqueued = PayloadsWith(inbound, Stderr)
    /\ stdout.state # "errored" =>
         Accepted(stdout) \o PendingOn("stdout") = stdout.enqueued
    /\ stderr.state # "errored" =>
         Accepted(stderr) \o PendingOn("stderr") = stderr.enqueued

C2_Witness ==
    /\ Len(inbound) = 3
    /\ inbound[1].id = Stdout /\ inbound[2].id = Stderr /\ inbound[3].id = Stdout
    /\ inbound[1].data # inbound[3].data
    /\ stdout.taken = <<inbound[1].data, inbound[3].data>>
    /\ stderr.taken = <<inbound[2].data>>

\* C3 (as amended): once an exit packet was dispatched, the exit signal is
\* resolved with the first byte of the first exit packet's payload
\* (undefined for an empty payload), whatever happens later: further exit
\* packets, the end of the inbound stream, a read error.
C3_ExitResolvesToFirstByte ==
    ExitPayloadsSeen # <<>> =>
        exit = Resolved(First(ExitPayloadsSeen[1]))

C3_Witness ==
    /\ ExitPayloadsSeen = << <<0, 1, 0, 0>>, <<1>> >>
    /\ pump = "rejected"
    /\ exit.state = "resolved"
    /\ exit.value = 0

\* The status a 4-byte payload carries, in the byte order of the packet
\* schema (littleEndian: true)
StatusOf(data) ==
    data[1] + 256 * data[2] + 65536 * data[3] + 16777216 * data[4]

\* C3 (as stated): the exit signal resolves to the status carried by the
\* 4-byte payload of the exit packet.
C3_ExitResolvesToStatus ==
    (ExitPayloadsSeen # <<>> /\ Len(ExitPayloadsSeen[1]) = 4) =>
        exit = Resolved(StatusOf(ExitPayloadsSeen[1]))

\* C4: when the inbound stream ended, both queues are closed, and the exit
\* signal is rejected with "Socket ended without exit message" if no exit
\* packet came before the end; nothing that follows changes that.
C4_EndWithoutExit ==
    pump = "fulfilled" =>
        /\ stdout.state = "closed"
        /\ stderr.state = "closed"
        /\ ExitPayloadsSeen = <<>> =>
             exit = Rejected(EndedError)

C4_Witness ==
    /\ pump = "fulfilled"
    /\ ExitPayloadsSeen = <<>>
    /\ Len(inbound) >= 2
    /\ socketClosed
    /\ exit.state = "rejected"

\* C5: when the read pump failed with e, both queues are errored with e,
\* and the exit signal is rejected with e unless an exit packet had settled
\* it, in which case it keeps that outcome.
C5_ReadErrorPropagates ==
    pump = "rejected" =>
        /\ stdout.state = "errored" /\ stderr.state = "errored"
        /\ stdout.error \in Errors
        /\ stderr.error = stdout.error
        /\ ExitPayloadsSeen = <<>> =>
             exit = Rejected(stdout.error)
        /\ ExitPayloadsSeen # <<>> => exit.state = "resolved"

C5_Witness ==
    /\ pump = "rejected"
    /\ ExitPayloadsSeen = <<>>
    /\ stdout.enqueued # <<>>
    /\ exit = Rejected("e2")
    /\ stderr.error = "e2"

\* C6: after the socket was closed (kill() or the abort signal), the
\* stdout queue, the stderr queue and the exit signal each eventually reach
\* a terminal state, and none of them changes once it is terminal.
AllTerminal == Terminal(stdout) /\ Terminal(stderr) /\ exit.state # "pending"

TerminalIsFinal ==
    /\ Terminal(stdout) => (stdout'.state = stdout.state /\ stdout'.error = stdout.error)
    /\ Terminal(stderr) => (stderr'.state = stderr.state /\ stderr'.error = stderr.error)
    /\ exit.state # "pending" => exit' = exit

C6_ClosedSocketTerminates ==
    /\ socketClosed ~> AllTerminal
    /\ [][TerminalIsFinal]_vars

\* C7: the pump dispatches a packet only when no push is waiting, so that
\* at most one payload was pushed and not yet accepted by its queue, over
\* both channels.
Unaccepted(s) ==
    IF s.state = "errored" THEN 0 ELSE Len(s.enqueued) - Len(Accepted(s))

C7_OnePushAtATime ==
    /\ (pending # NoPush) <=> (pump = "pushing")
    /\ Unaccepted(stdout) + Unaccepted(stderr) <= 1
    /\ Unaccepted(stdout) + Unaccepted(stderr) = Len(PendingOn("stdout")) + Len(PendingOn("stderr"))

C7_Witness ==
    /\ Len(inbound) = 3
    /\ pump = "pushing"
    /\ pending.chan = "stdout"
    /\ Len(stdout.enqueued) = 3
    /\ Len(stdout.taken) = 1
    /\ Len(stdout.queue) = 1

\* C8: when the first establishment fails with AdbReverseNotSupportedError,
\* tunnelForward is set and exactly one more attempt is made, in forward
\* mode; when that one succeeds start() goes on with its connection; and
\* there are never more than two attempts.
FirstOutcome == attempts[1].outcome

C8_SingleFallback ==
    /\ Len(attempts) <= 2
    /\ Len(attempts) = 2 =>
         /\ FirstOutcome = ReverseNotSupported
         /\ attempts[2].mode = "forward"
    /\ (Len(attempts) >= 1 /\ FirstOutcome = ReverseNotSupported) =>
         /\ tunnelForward
         /\ pc # "fallback" => Len(attempts) = 2
    /\ (Len(attempts) = 2 /\ attempts[2].outcome = "ok") =>
         /\ connection = 2
         /\ pc \notin {"establish", "fallback"}
         /\ (pc = "spawn" \/ process # "undefined" \/ thrown \in Errors)

C8_Witness ==
    /\ Len(attempts) = 2
    /\ attempts[1].mode = "reverse"
    /\ attempts[2].outcome = "ok"
    /\ pc = "done"
    /\ result.state = "resolved"
    /\ disposals = <<2>>

\* C9: a first establishment failure other than AdbReverseNotSupportedError
\* makes start() reject with that error, with no second attempt and no
\* process spawned; a failure of the fallback attempt, of any kind, makes
\* start() reject with that error, with no further attempt.
C9_EstablishmentFailureIsTerminal ==
    /\ (Len(attempts) >= 1 /\ FirstOutcome \in Errors) =>
         /\ Len(attempts) = 1
         /\ process = "undefined"
         /\ thrown = FirstOutcome
         /\ pc \in {"catch", "finally", "done"}
         /\ pc = "done" => result = Rejected(FirstOutcome)
    /\ (Len(attempts) >= 2 /\ attempts[2].outcome # "ok") =>
         /\ Len(attempts) = 2
         /\ process = "undefined"
         /\ thrown = attempts[2].outcome
         /\ pc \in {"catch", "finally", "done"}
         /\ pc = "done" => result = Rejected(attempts[2].outcome)

C9_Witness ==
    /\ Len(attempts) = 2
    /\ attempts[2].outcome = ReverseNotSupported
    /\ pc = "done"
    /\ result = Rejected(ReverseNotSupported)
    /\ kills = 0

\* C10 (as amended): once the agent is spawned the first settlement of the
\* race decides: start() rejects with AdbScrcpyExitedError (which holds the
\* `output` array) when process.exit settled first; when the stream bundle
\* came first start() succeeds, unless the capture pipe failed before it was
\* aborted, in which case start() rejects with the pipe's error; a process
\* exit after that does not change the outcome.
C10_FirstSettlementDecides ==
    pc = "done" =>
        /\ race = "exited" => result = Rejected(ExitedError)
        /\ race = "streams" =>
             result = IF pipe = "failed" THEN Rejected(pipeError)
                      ELSE Resolved(Undefined)
        /\ result.reason = ExitedError => race = "exited"

C10_Witness ==
    /\ pc = "done"
    /\ race = "streams"
    /\ process = "exited"
    /\ output # <<>>
    /\ result.state = "resolved"

\* C10 (as stated): whichever of process exit and stream bundle settles
\* first decides between rejection with AdbScrcpyExitedError and success.
C10_RaceAloneDecides ==
    pc = "done" =>
        /\ race = "exited" => result = Rejected(ExitedError)
        /\ race = "streams" => result.state = "resolved"

\* The lines 1..n in the order the process wrote them
Lines(n) == [i \in 1..n |-> i]

\* C11 (as amended): when start() has rejected, the process was killed
\* exactly once if it had been spawned, and dispose() was called exactly
\* once, on the connection start() created last; except that after a first
\* initialize() failure other than AdbReverseNotSupportedError the local
\* `connection` was cleared and nothing is disposed.  The connection of a
\* first attempt that failed with AdbReverseNotSupportedError is never
\* disposed.
C11_FailureCleansUp ==
    (pc = "done" /\ result.state = "rejected") =>
        /\ kills = IF process = "undefined" THEN 0 ELSE 1
        /\ disposals = IF Len(attempts) = 1 /\ attempts[1].outcome \in Errors
                       THEN <<>>
                       ELSE <<Len(attempts)>>

C11_Witness ==
    /\ pc = "done"
    /\ result = Rejected(ExitedError)
    /\ process = "exited"
    /\ kills = 1
    /\ Len(attempts) = 2
    /\ disposals = <<2>>

\* C11 (as stated): when start() has rejected, the process was killed if it
\* had been spawned and a connection was disposed.
C11_FailureDisposesConnection ==
    (pc = "done" /\ result.state = "rejected") =>
        /\ process # "undefined" => kills >= 1
        /\ disposals # <<>>

\* What the client's stdout has still to yield: the items of `output` not
\* read yet, then the unread lines of the process's stdout
ClientRemaining ==
    SubSeq(output, Len(clientOut) + 1, Len(output)) \o stdoutBuf

\* C12: when start() succeeded the capture pipe has stopped and will not
\* take another line, and the lines read from the client's stdout followed
\* by those it has still to yield (the captured ones first) are the lines
\* the process wrote, each once and in the order written.
C12_ClientStdoutIsWholeOutput ==
    (pc = "done" /\ result.state = "resolved") =>
        /\ pipe \in {"aborted", "finished"}
        /\ clientOut \o ClientRemaining = Lines(written)

C12_Witness ==
    /\ pc = "done"
    /\ result.state = "resolved"
    /\ output = <<1>>
    /\ written = 2
    /\ clientOut = <<1, 2>>

\* C13: when start() succeeded, dispose() was called exactly once, on the
\* connection the stream bundle came from, the process was not killed, and
\* no dispose() happens on this path before the bundle was obtained.
C13_SuccessDisposesOnce ==
    /\ (pc = "done" /\ result.state = "resolved") =>
          /\ streams = "resolved"
          /\ connection = Len(attempts)
          /\ disposals = <<connection>>
          /\ kills = 0
    /\ (thrown = NoError /\ disposals # <<>>) =>
          (streams = "resolved" /\ race = "streams" /\ pc = "done")

C13_Witness ==
    /\ pc = "done"
    /\ result.state = "resolved"
    /\ Len(attempts) = 2
    /\ disposals = <<2>>
    /\ process = "running"
    /\ kills = 0

\* C14: a tryConsume whose callback returned a value that is no promise has
\* consumed a pending Consumable when it returns that value; one whose
\* callback returned a promise leaves the Consumable pending (as long as
\* nobody calls consume() or error()) until the promise fulfils, then the
\* Consumable is consumed and the returned promise is fulfilled with the
\* promise's value.
C14_TryConsumeSettlesOnSuccess ==
    /\ callback.kind = "value" =>
          /\ tryReturn = [kind |-> "value", settled |-> callback.settled]
          /\ callback.atCall = "pending" => resolver = Resolved(Undefined)
    /\ (/\ callback.kind = "promise"
        /\ callback.settled.state = "pending"
        /\ callback.atCall = "pending"
        /\ calls = <<>>) => (resolver.state = "pending" /\ tryReturn.settled.state = "pending")
    /\ (callback.kind = "promise" /\ callback.settled.state = "resolved") =>
          /\ tryReturn = [kind |-> "promise", settled |-> callback.settled]
          /\ callback.atSettle = "pending" => resolver = Resolved(Undefined)

C14_Witness ==
    /\ callback.kind = "promise"
    /\ callback.settled = Resolved(1)
    /\ callback.atSettle = "pending"
    /\ tryReturn.settled = Resolved(1)
    /\ resolver = Resolved(Undefined)

\* C15: when the callback of tryConsume threw e, tryConsume threw e; when
\* the callback's promise rejected with e, the returned promise rejected
\* with e; in both cases a Consumable that was pending then is errored with
\* e, and no later consume() or error() changes that.
C15_TryConsumeSettlesOnFailure ==
    /\ callback.kind = "throw" =>
          /\ tryReturn = [kind |-> "throw", settled |-> callback.settled]
          /\ callback.settled.state = "rejected"
          /\ callback.atCall = "pending" => resolver = callback.settled
    /\ (callback.kind = "promise" /\ callback.settled.state = "rejected") =>
          /\ tryReturn = [kind |-> "promise", settled |-> callback.settled]
          /\ callback.atSettle = "pending" => resolver = callback.settled

C15_Witness ==
    /\ callback.kind = "promise"
    /\ callback.settled = Rejected("e1")
    /\ callback.atSettle = "pending"
    /\ calls = <<[op |-> "consume", e |-> NoError]>>
    /\ resolver = Rejected("e1")
    /\ tryReturn.settled = Rejected("e1")

\* C16 (as amended): write() and enqueue() are fulfilled only when the
\* Consumable they made is consumed; when writer.write() fulfilled or
\* controller.enqueue() returned they settle only after the Consumable was
\* settled, and reject with its error when it is errored; when
\* writer.write() rejected or controller.enqueue() threw they reject with
\* that error, whatever the state of the Consumable.
C16_ProducerWaitsForConsumer ==
    /\ producerResult.state = "resolved" => resolver = Resolved(Undefined)
    /\ (producer = "settled" /\ handOff = "ok") =>
          /\ resolver.state # "pending"
          /\ resolver.state = "rejected" => producerResult = Rejected(resolver.reason)
    /\ (producer = "settled" /\ handOff # "ok") =>
          (handOff \in Errors /\ producerResult = Rejected(handOff))
    /\ producer # "settled" => producerResult.state = "pending"

C16_Witness ==
    /\ producerOp = "write"
    /\ handOff = "ok"
    /\ resolver = Rejected("e1")
    /\ producerResult = Rejected("e1")

\* C16 (as stated): write() and enqueue() are not settled while the
\* Consumable they made is pending, and reject with its error when it is
\* errored.
C16_ProducerNeverSettlesFirst ==
    producerResult.state # "pending" =>
        /\ resolver.state # "pending"
        /\ resolver.state = "rejected" => producerResult = Rejected(resolver.reason)

\* C17: a constructor that threw found the signal aborted and left no abort
\* listener, no read pump, no writer and an open socket; and a session is
\* running with an aborted signal only when the signal was aborted after
\* the construction, so that its listener is registered.
C17_AbortedSignalThrowsFirst ==
    /\ session = "threw" =>
          /\ signal = "aborted"
          /\ ~listener
          /\ pump = "unstarted"
          /\ ~writer
          /\ ~socketClosed
    /\ (session = "running" /\ signal = "aborted") => listener

C17_Witness ==
    /\ session = "threw"
    /\ signal = "aborted"
    /\ pump = "unstarted"

\* The change kill() makes to a session
KillEffect ==
    /\ socketClosed'
    /\ UNCHANGED <<session, listener, writer, pump, pending, inbound, stdout,
                   stderr, exit>>

\* C18: when the abort signal fires on a running session, the session
\* changes exactly as kill() changes it: the socket is closed and nothing
\* else; and the streams are closed or errored and the exit signal
\* rejected only by the handlers of the read pump, after it ended or
\* failed.
C18_AbortIsKill ==
    /\ [][(session = "running" /\ signal = "idle" /\ signal' = "aborted")
            => KillEffect]_vars
    /\ [](Terminal(stdout) \/ Terminal(stderr) \/ exit.state = "rejected"
            => pump \in {"fulfilled", "rejected"})

C18_Witness ==
    /\ session = "running"
    /\ signal = "aborted"
    /\ listener
    /\ socketClosed
    /\ pump = "fulfilled"
    /\ stdout.state = "closed"
    /\ exit.state = "rejected"

\* C19: the loop has called endDeviceMessageStream and buffered.cancel
\* only when it has ended; when it ended because the read of a type tag
\* found the channel ended, it called endDeviceMessageStream once without
\* error and did not cancel; when it ended on any other error, an end
\* inside a payload included, it called endDeviceMessageStream once with
\* that error and cancelled the channel with it.
C19_ReaderLoopFinalizes ==
    /\ reader # "done" => (finalized = <<>> /\ cancelled = <<>>)
    /\ reader = "done" =>
          IF cause.where = "type" /\ cause.error = ExactReadableEnded
          THEN finalized = <<NoError>> /\ cancelled = <<>>
          ELSE finalized = <<cause.error>> /\ cancelled = <<cause.error>>

C19_Witness ==
    /\ reader = "done"
    /\ Len(parsed) = 2
    /\ cause = [where |-> "payload", error |-> ExactReadableEnded]
    /\ finalized = <<ExactReadableEnded>>
    /\ cancelled = <<ExactReadableEnded>>

\* The bytes the decoder waits for
Needed ==
    CASE field = "id" -> 1
      [] field = "length" -> 4
      [] field = "data" -> decoded.length
      [] OTHER -> 0

\* C20: however the source splits the bytes of a serialized packet into
\* chunks, the decoder consumes every delivered byte exactly once and in
\* order, can go on as soon as all bytes are delivered, and ends with the
\* tag and the payload of the packet that was serialized, no byte left
\* over.
C20_DecodingIgnoresChunking ==
    /\ field = "done" =>
          /\ decoded.id = packet.id
          /\ decoded.length = Len(packet.data)
          /\ decoded.data = packet.data
          /\ buffered = <<>>
          /\ wire = <<>>
    /\ (field # "done" /\ wire = <<>>) => Len(buffered) >= Needed

C20_Witness ==
    /\ field = "done"
    /\ packet = [id |-> Exit, data |-> <<255, 0>>]
    /\ chunks = <<1, 1, 1, 1, 1, 1, 1>>
    /\ decoded.id = Exit
    /\ decoded.data = <<255, 0>>

\* The sum of two numbers of n bytes, most significant byte first, modulo
\* 256^n
RECURSIVE AddBytes(_, _, _)
AddBytes(a, b, carry) ==
    IF a = <<>> THEN <<>>
    ELSE LET n == Len(a)
             sum == a[n] + b[n] + carry
         IN AddBytes(SubSeq(a, 1, n - 1), SubSeq(b, 1, n - 1), sum \div 256)
                \o <<sum % 256>>

Zeros(n) == [i \in 1..n |-> 0]

\* The value v is what the bytes m (most significant first) stand for, read
\* as a signed two's complement number or as an unsigned number
Denotes(v, m, signed) ==
    IF signed /\ m[1] >= 128
    THEN /\ v.neg
         /\ Len(v.mag) = Len(m)
         /\ v.mag # Zeros(Len(m))
         /\ AddBytes(v.mag, m, 0) = Zeros(Len(m))
    ELSE /\ ~v.neg
         /\ v.mag = m

\* The bytes a decode by field f has to take from the reader
Due(f) == SubSeq(number.given, 1, FieldSize(f))

\* C21: a numeric field asks the reader once, for exactly as many bytes as
\* its declared size, takes those bytes and no other from the reader, and
\* its value is what those bytes stand for in the schema's byte order,
\* signed for s8, s16, s32 and s64 and unsigned for u8, u16, u32 and u64.
C21_NumberFieldsReadTheirSize ==
    number.phase = "decoded" =>
        /\ number.requested = FieldSize(number.used)
        /\ Due(number.used) \o number.source = number.given
        /\ Denotes(number.value,
                   MostSignificantFirst(Due(number.used), number.little),
                   DeclaredSigned(number.used))

C21_Witness ==
    /\ number.phase = "decoded"
    /\ number.used = "s32"
    /\ ~number.narrowed
    /\ number.little
    /\ number.given = <<0, 0, 0, 255, 0>>
    /\ number.source = <<0>>
    /\ number.value = [neg |-> TRUE, mag |-> <<1, 0, 0, 0>>]

\* C29 (as stated): a numeric field called as a function returns itself, so
\* that the field put into the schema has the size of the field that was
\* called and decodes with its signedness.
C29_CalledFieldIsItself ==
    number.narrowed =>
        /\ number.used = number.field
        /\ number.phase = "decoded" =>
             /\ number.requested = FieldSize(number.field)
             /\ Denotes(number.value,
                        MostSignificantFirst(Due(number.field), number.little),
                        DeclaredSigned(number.field))

\* The bytes p are a packet with tag 0 whose payload is the chunk: the tag,
\* the length in four bytes, the least significant first, then the chunk
IsStdinPacketOf(p, chunk) ==
    /\ Len(p) = 5 + Len(chunk)
    /\ p[1] = 0
    /\ p[2] = Len(chunk) /\ p[3] = 0 /\ p[4] = 0 /\ p[5] = 0
    /\ SubSeq(p, 6, Len(p)) = chunk

\* C22: the packets passed to the socket writer are, in order, one tag-0
\* packet for each of the first chunks written, with the chunk as payload;
\* the sink works on one chunk at a time; and the write of a chunk has
\* completed only when the socket writer's write of its packet has.
C22_StdinChunksBecomePackets ==
    /\ Len(stdin.sent) <= Len(stdin.written)
    /\ \A i \in 1..Len(stdin.sent) : IsStdinPacketOf(stdin.sent[i], stdin.written[i])
    /\ stdin.completed <= stdin.acked
    /\ stdin.acked <= Len(stdin.sent)
    /\ Len(stdin.sent) <= stdin.completed + 1

C22_Witness ==
    /\ stdin.written = <<<<255>>, <<0, 255>>>>
    /\ stdin.sent = <<<<0, 1, 0, 0, 0, 255>>, <<0, 2, 0, 0, 0, 0, 255>>>>
    /\ stdin.acked = 2
    /\ stdin.completed = 1

\* The function the negotiated codec selects for a packet, if any
SelectedFor(codec, type) ==
    CASE codec = "H264" /\ type = "configuration" -> {"configureH264"}
      [] codec = "H265" /\ type = "configuration" -> {"configureH265"}
      [] codec = "AV1" /\ type # "configuration" -> {"configureAv1"}
      [] OTHER -> {}

\* C23: for every packet that passed the inspector at most one function
\* ran, and it is the one the negotiated codec selects for the packet's
\* type; and the screen size changes only in a step in which a function ran
\* for the packet, to the size that function found.
C23_OneGeometryFunction ==
    /\ [](\A i \in 1..Len(video.inspected) :
            /\ Cardinality(video.inspected[i].called) <= 1
            /\ video.inspected[i].called =
                 SelectedFor(video.codec, video.inspected[i].type))
    /\ [][(video'.screenWidth # video.screenWidth
            \/ video'.screenHeight # video.screenHeight)
          => LET last == video'.inspected[Len(video'.inspected)] IN
               /\ last.called # {}
               /\ last.holds # NoGeometry
               /\ video'.screenWidth = last.holds.width
               /\ video'.screenHeight = last.holds.height]_vars

C23_Witness ==
    /\ video.codec = "AV1"
    /\ Len(video.inspected) = 3
    /\ video.inspected[1].type = "configuration"
    /\ video.inspected[1].holds # NoGeometry
    /\ video.inspected[2].called = {"configureAv1"}
    /\ video.inspected[2].holds = NoGeometry
    /\ video.inspected[3].called = {"configureAv1"}
    /\ video.screenWidth = 720
    /\ video.screenHeight = 1280

\* C24: the process is spawned with the CLASSPATH prefix and the path,
\* "app_process", "/", the entry point, the options' version and then the
\* elements of options.serialize() in their order, and with the none
\* protocol as its only protocol.
C24_SpawnArgumentOrder ==
    spawn.called =>
        /\ Len(spawn.args) = 5 + Len(spawn.serialized)
        /\ spawn.args[1] = <<"CLASSPATH=", spawn.path>>
        /\ spawn.args[2] = "app_process"
        /\ spawn.args[3] = "/"
        /\ spawn.args[4] = "com.genymobile.scrcpy.Server"
        /\ spawn.args[5] = spawn.version
        /\ \A i \in 1..Len(spawn.serialized) : spawn.args[5 + i] = spawn.serialized[i]
        /\ spawn.protocols = <<NoneProtocol>>

C24_Witness ==
    /\ spawn.called
    /\ spawn.version = "1.16"
    /\ spawn.serialized = <<"tunnel_forward=true", "audio=false">>
    /\ Len(spawn.args) = 7
    /\ spawn.args[6] = "tunnel_forward=true"
    /\ spawn.args[7] = "audio=false"

\* C25: the stream is constructed with the highWaterMark it was given (or
\* none when none was given), and when a size function was given the size
\* of every queued Consumable is that function applied to the value inside
\* it.
C25_StrategySizesTheValue ==
    strategy.constructed =>
        /\ strategy.wrapped.highWaterMark = strategy.given.highWaterMark
        /\ \A i \in 1..Len(strategy.queued) :
             LET q == strategy.queued[i] IN
             CASE strategy.given.size = "byteLength" -> q.size = Len(q.value)
               [] strategy.given.size = "one" -> q.size = 1
               [] OTHER -> TRUE

C25_Witness ==
    /\ strategy.kind = "readable"
    /\ strategy.given = [highWaterMark |-> 4, size |-> "byteLength"]
    /\ strategy.wrapped.highWaterMark = 4
    /\ strategy.queued = <<[value |-> <<0, 255>>, size |-> 2],
                          [value |-> <<>>, size |-> 0]>>

C27_OtherPacketsAreIgnored ==
    [][(/\ Len(inbound') = Len(inbound) + 1
        /\ inbound'[Len(inbound')].id \notin {Stdout, Stderr, Exit})
       => /\ stdout' = stdout
          /\ stderr' = stderr
          /\ exit' = exit
          /\ pending' = pending
          /\ pump = "reading"
          /\ pump' = "reading"]_vars

\* Packets of three other ids went by, the stdout packet after them arrived.
C27_Witness ==
    /\ Len(inbound) = 3
    /\ inbound[1].id = Stdin
    /\ inbound[2].id \in {CloseStdin, WindowSizeChange, UnknownId}
    /\ inbound[3].id = Stdout
    /\ stdout.queue = <<inbound[3].data>>
    /\ stderr.queue = <<>>
    /\ exit.state = "pending"
    /\ pump = "reading"

\* C28: endDeviceMessageStream is called at most once, and exactly once
\* by the time the reader loop has ended; once it was called it is not
\* called again and parseDeviceMessage is not called any more.
C28_FinalizedOnce ==
    /\ [](/\ Len(finalized) <= 1
          /\ (reader = "done") <=> (Len(finalized) = 1))
    /\ [][finalized # <<>> =>
            (parsed' = parsed /\ finalized' = finalized)]_vars

\* Three messages were parsed, then the channel ended at a type tag.
C28_Witness ==
    /\ reader = "done"
    /\ Len(parsed) = MaxMessages
    /\ cause = [where |-> "type", error |-> ExactReadableEnded]
    /\ finalized = <<NoError>>
    /\ cancelled = <<>>

====
